---- MODULE Spec2Model ----
(***************************************************************************)
(* DarkPulse-Collector: the key-value cache (redis_controller), the cache  *)
(* wrappers and the index/raw-card writers of the crawlers, and the link   *)
(* discovery walk of the crawl engine.                                     *)
(*                                                                         *)
(* Program strings are sequences of character codes (naturals), so that    *)
(* split("|"), "|".join, sorted() and str() are computed, not assumed.     *)
(* Cache keys are records of the segments the code joins with ":".         *)
(***************************************************************************)
EXTENDS Integers, Sequences, FiniteSets, TLC

VARIABLES
    crawler,    \* the crawler class whose instance this process runs
    faulty,     \* TRUE when the backend behind self._redis may raise
    store,      \* redis_controller._store: key -> <<value, exp_at>>
    clock,      \* time.time(), in ticks of 1/TicksPerSecond second
    written,    \* history: key -> <<value, expiry, clock, had a TTL before>> of the last set the backend made
    first_aid,  \* history: non-empty url -> the first storeRaw of a card with it: <<id, title, epoch>>
    epoch,      \* history: 0 in the first process, 1 once it has been restarted
    last,       \* the call just made and what its caller observed (none once time has moved on)
    site,       \* the index pages of the site: page -> [links, next]
    limits,     \* [max_pages, max_articles]: self._max_pages and self._max_articles
    walk,       \* link discovery: [pc, page_no, current_url, all_links, visit_list]
    fetched,    \* history: the index pages navigated to in this run, in order
    prev_visit, \* history: the sequence the previous run over these pages and limits returned
    appenders,  \* the callers of _append_index sharing one backend: [pc, item_id, cur]
    doc,        \* the processed document being flattened and read back: [obj, pc, loaded]
    pipe,       \* run(): the position and the locals of the crawl pipeline
    sessions,   \* history: the browser and HTTP sessions opened, in order
    hist        \* history of the runs: navigations, visits, enrichments, outcomes

storeVars == <<faulty, store, clock, written, first_aid, epoch, last>>

walkVars == <<site, limits, walk, fetched, prev_visit>>

pipeVars == <<appenders, doc, pipe, sessions, hist>>

vars == <<crawler, faulty, store, clock, written, first_aid, epoch, last,
          site, limits, walk, fetched, prev_visit,
          appenders, doc, pipe, sessions, hist>>

-----------------------------------------------------------------------------
(* Bounds of the model.                                                    *)

TicksPerSecond == 2

MaxClock == 5

MaxRecords == 2

MaxCards == 1

-----------------------------------------------------------------------------
(* Strings.                                                                *)

\* Python's "" and None.  None is a one-element sequence holding no
\* character code, so that it compares with every string and equals none.
EmptyStr == <<>>

NoneVal == <<-1>>

\* None where a list is expected (m_links = None)
NoneList == <<NoneVal>>

\* exp_at = None in redis_controller (an entry that never expires).
NoExpiry == -1

\* the "|" of the index strings, and "0" as str() writes it
PIPE == 124

DIGIT0 == 48

RECURSIVE Str(_)
\* str(n) of a non-negative int: its decimal digits
Str(n) == IF n < 10 THEN <<DIGIT0 + n>> ELSE Str(n \div 10) \o <<DIGIT0 + (n % 10)>>

\* one hexadecimal digit of hexdigest(): 0-9, a-f
HexDigit(n) == IF n < 10 THEN 48 + n ELSE 87 + n

RECURSIVE Fold(_, _)
Fold(h, text) ==
    IF text = <<>> THEN h
    ELSE Fold((h * 31 + Head(text)) % 256, Tail(text))

(* hashlib.sha1(text.encode("utf-8")).hexdigest(): a digest that depends   *)
(* on the characters of text and on nothing else, rendered as lower-case   *)
(* hexadecimal digits.  The model folds the text into 8 bits (two digits). *)
Sha1(text) == LET h == Fold(7, text) IN <<HexDigit(h \div 16), HexDigit(h % 16)>>

RECURSIVE Split(_, _)
\* str.split(sep) for a one-character separator: the fields between the
\* separators, empty fields included ("".split("|") is [""]).
Split(s, sep) ==
    IF \A i \in 1..Len(s) : s[i] # sep THEN <<s>>
    ELSE LET i == CHOOSE j \in 1..Len(s) :
                      s[j] = sep /\ \A k \in 1..(j - 1) : s[k] # sep
         IN <<SubSeq(s, 1, i - 1)>> \o Split(SubSeq(s, i + 1, Len(s)), sep)

RECURSIVE Join(_, _)
\* sep.join(parts)
Join(parts, sep) ==
    IF parts = <<>> THEN <<>>
    ELSE IF Len(parts) = 1 THEN parts[1]
    ELSE parts[1] \o <<sep>> \o Join(Tail(parts), sep)

RECURSIVE NonEmpty(_)
\* [p for p in parts if p]
NonEmpty(parts) ==
    IF parts = <<>> THEN <<>>
    ELSE (IF Head(parts) = <<>> THEN <<>> ELSE <<Head(parts)>>) \o NonEmpty(Tail(parts))

Range(seq) == {seq[i] : i \in 1..Len(seq)}

-----------------------------------------------------------------------------
(* Keys.  f"{ns}:{kind}:{id}:{field}:{idx}" as the record of its segments.   *)

NoIdx == -1

\* "HACKREAD:raw_index", "THN:processed_index", "CSO:last_crawl", ...
TopKey(ns, kind) == [ns |-> ns, kind |-> kind, id |-> <<>>, field |-> "", idx |-> NoIdx]

\* f"{ns}:raw:{aid}:{field}" and f"{ns}:raw:{aid}:{field}:{i}"
RawKey(ns, aid, field, idx) == [ns |-> ns, kind |-> "raw", id |-> aid, field |-> field, idx |-> idx]

Crawlers == {"_csocybercrime", "_hackread", "_thehackernews"}

\* _csocybercrime inherits the helpers of CrawlerBase; the other two define their own
UsesCrawlerBase(w) == w = "_csocybercrime"

Namespace(w) ==
    CASE w = "_hackread" -> "HACKREAD"
      [] w = "_thehackernews" -> "THN"
      [] OTHER -> "CSO"

raw_index_key(w) == TopKey(Namespace(w), "raw_index")

last_crawl_key(w) == TopKey(Namespace(w), "last_crawl")

\* the seed_url property of each crawler (abbreviated to its distinguishing letter)
seed_url(w) ==
    CASE w = "_hackread" -> <<104>>
      [] w = "_thehackernews" -> <<116>>
      [] OTHER -> <<99>>

-----------------------------------------------------------------------------
(* redis_controller: the in-memory backend.                                *)

\* now = int(time.time())
Now(clk) == clk \div TicksPerSecond

\* expiry = args[2] if len(args) > 2 and args[2] else None
Truthy(expiry) == expiry # NoExpiry /\ expiry # 0

\* invoke_trigger(1, [key, default, _]): the value returned and the store left
BackendGet(st, key, default, now) ==
    IF key \notin DOMAIN st THEN [value |-> default, store |-> st]
    ELSE LET value == st[key][1]
             exp_at == st[key][2]
         IN IF Truthy(exp_at) /\ now > exp_at
            THEN [value |-> default,
                  store |-> [k \in DOMAIN st \ {key} |-> st[k]]]
            ELSE [value |-> value, store |-> st]

\* invoke_trigger(2, [key, value, expiry]): the store left
BackendSet_KeepsTtl(st, key, value, expiry, now) ==
    LET exp_at == IF Truthy(expiry) THEN now + expiry
                  ELSE IF key \in DOMAIN st THEN st[key][2] ELSE NoExpiry
    IN (key :> <<value, exp_at>>) @@ st

BackendSet(st, key, value, expiry, now) ==
    LET exp_at == IF Truthy(expiry) THEN now + expiry ELSE NoExpiry
    IN (key :> <<value, exp_at>>) @@ st

-----------------------------------------------------------------------------
(* The cache wrappers of the crawlers.  fail: the call into the backend    *)
(* raises.  Each returns the value handed to the caller, the store left    *)
(* and whether an exception left the wrapper.                              *)

_redis_get(w, st, key, default, now, fail) ==
    IF fail THEN [ret |-> default, store |-> st, raised |-> FALSE]
    ELSE LET r == BackendGet(st, key, default, now)
         IN [ret |-> IF r.value = NoneVal
                     THEN (IF UsesCrawlerBase(w) THEN EmptyStr ELSE default)
                     ELSE r.value,
             store |-> r.store, raised |-> FALSE]

_redis_set(w, st, key, value, expiry, now, fail) ==
    LET val == IF value = NoneVal THEN EmptyStr ELSE value
    IN IF fail
       THEN [store |-> st, raised |-> ~UsesCrawlerBase(w)]
       ELSE [store |-> BackendSet(st, key, val, expiry, now), raised |-> FALSE]

\* parts = [p for p in cur.split("|") if p] if cur else []
IndexParts(cur) == IF cur = EmptyStr THEN <<>> ELSE NonEmpty(Split(cur, PIPE))

_append_index_NoMembershipTest(w, st, index_key, item_id, now, failGet, failSet) ==
    LET g == _redis_get(w, st, index_key, EmptyStr, now, failGet)
        parts == IndexParts(g.ret)
    IN _redis_set(w, g.store, index_key, Join(Append(parts, item_id), PIPE),
                  NoExpiry, now, failSet)

_append_index(w, st, index_key, item_id, now, failGet, failSet) ==
    LET g == _redis_get(w, st, index_key, EmptyStr, now, failGet)
        parts == IndexParts(g.ret)
    IN IF item_id \notin Range(parts)
       THEN _redis_set(w, g.store, index_key, Join(Append(parts, item_id), PIPE),
                       NoExpiry, now, failSet)
       ELSE [store |-> g.store, raised |-> FALSE]

-----------------------------------------------------------------------------
(* Cards and the raw-card writers.                                         *)

\* str(datetime.now(timezone.utc).timestamp()): the digits of the clock reading
TimestampStr(clk) == Str(clk)

\* aid = self._sha1(card.m_url or (card.m_title or "") + str(timestamp))
identify_HashesTitleToo(card, clk) ==
    Sha1(card.m_url \o (IF card.m_title = NoneVal THEN EmptyStr ELSE card.m_title))

identify(card, clk) ==
    IF card.m_url # EmptyStr /\ card.m_url # NoneVal
    THEN Sha1(card.m_url)
    ELSE Sha1((IF card.m_title = NoneVal \/ card.m_title = EmptyStr
               THEN EmptyStr ELSE card.m_title) \o TimestampStr(clk))

\* (card.m_extra or {}).get(name, "")
Extra(card, name) == IF name \in DOMAIN card.m_extra THEN card.m_extra[name] ELSE EmptyStr

\* x or ""
OrEmpty(x) == IF x = NoneVal THEN EmptyStr ELSE x

\* lst or []
OrEmptyList(lst) == IF lst = NoneList THEN <<>> ELSE lst

\* the <name>_count key and the <name>:<i> keys of one list field
ListWrites_NoCount(ns, aid, name, lst) ==
    [i \in 1..Len(lst) |-> <<RawKey(ns, aid, name, i - 1), lst[i]>>]

ListWrites(ns, aid, name, lst) ==
    <<  <<RawKey(ns, aid, name \o "_count", NoIdx), Str(Len(lst))>>  >>
    \o [i \in 1..Len(lst) |-> <<RawKey(ns, aid, name, i - 1), lst[i]>>]

ScalarWrites(ns, aid, fields) ==
    [i \in 1..Len(fields) |-> <<RawKey(ns, aid, fields[i][1], NoIdx), fields[i][2]>>]

\* The _redis_set calls of _store_raw_card, in the order the code makes them,
\* each a <<key, value>> pair (the value before the wrapper's str()).
RawWrites(w, card, aid, clk) ==
    LET ns == Namespace(w)
        head == << <<"url", card.m_url>>, <<"title", card.m_title>>,
                   <<"author", card.m_author>>, <<"date", card.m_leak_date>> >>
        body == << <<"description", card.m_description>>,
                   <<"location", OrEmpty(card.m_location)>>,
                   <<"content", OrEmpty(card.m_content)>>,
                   <<"network:type", card.m_network>>,
                   <<"seed_url", seed_url(w)>>,
                   <<"rendered", <<49>> >>,
                   <<"scraped_at", Str(Now(clk))>> >>
        date_raw == << <<"date_raw", Extra(card, "date_raw")>> >>
        content_html == << <<"content_html", Extra(card, "content_html")>> >>
        scalars == CASE w = "_hackread" -> head \o date_raw \o content_html \o body
                     [] w = "_thehackernews" -> head \o date_raw \o body
                     [] OTHER -> head \o body \o date_raw \o content_html
    IN ScalarWrites(ns, aid, scalars)
       \o ListWrites(ns, aid, "links", OrEmptyList(card.m_links))
       \o ListWrites(ns, aid, "weblink", OrEmptyList(card.m_weblink))
       \o ListWrites(ns, aid, "dumplink", OrEmptyList(card.m_dumplink))

RECURSIVE ApplyWrites(_, _, _, _, _, _)
\* The writes made one after the other; failAt is the position of the write
\* at which the backend raises (0: none).  A wrapper that lets the error out
\* ends the writer there.
ApplyWrites(w, st, writes, now, failAt, pos) ==
    IF writes = <<>> THEN [store |-> st, raised |-> FALSE]
    ELSE LET r == _redis_set(w, st, Head(writes)[1], Head(writes)[2], NoExpiry,
                             now, failAt = pos)
         IN IF r.raised THEN r
            ELSE ApplyWrites(w, r.store, Tail(writes), now, failAt, pos + 1)

\* _store_raw_card(card): the id returned, the store left, and whether an
\* exception left it.  Backend call number failAt raises (0: none); the
\* calls are the field writes, then the get and the set of _append_index.
_store_raw_card(w, st, card, clk, failAt) ==
    LET aid == identify(card, clk)
        writes == RawWrites(w, card, aid, clk)
        n == Len(writes)
        wr == ApplyWrites(w, st, writes, Now(clk), failAt, 1)
    IN IF wr.raised THEN [aid |-> aid, store |-> wr.store, raised |-> TRUE]
       ELSE LET ap == _append_index(w, wr.store, raw_index_key(w), aid, Now(clk),
                                    failAt = n + 1, failAt = n + 2)
            IN [aid |-> aid, store |-> ap.store, raised |-> ap.raised]

-----------------------------------------------------------------------------
(* Inputs.                                                                 *)

\* article URLs "A", "AB", "B", "C" and the titles "t", "u"
UrlA == <<65>>

UrlAB == <<65, 66>>

UrlB == <<66>>

UrlC == <<67>>

Urls == {UrlA, UrlAB, UrlB, UrlC}

Titles == {<<116>>, <<117>>}

\* news_model as the crawlers build it: m_url = link, the three lists [link]
CardOf(url, title, extra) ==
    [m_url |-> url, m_title |-> title, m_author |-> <<97>>, m_leak_date |-> EmptyStr,
     m_description |-> <<100>>, m_location |-> EmptyStr, m_content |-> <<99>>,
     m_network |-> <<110>>, m_links |-> IF url = EmptyStr THEN NoneList ELSE <<url>>,
     m_weblink |-> IF url = EmptyStr THEN <<>> ELSE <<url>>,
     m_dumplink |-> IF url = EmptyStr THEN <<>> ELSE <<url>>,
     m_extra |-> extra]

\* m_extra as the article page gave it: with the title "t" the page carried a
\* date and a body, with the title "u" it carried neither
ExtraOf(title) ==
    IF title = <<116>> THEN [date_raw |-> <<49>>, content_html |-> <<60>>] ELSE <<>>

Cards == {CardOf(url, title, ExtraOf(title)) : url \in {UrlA, UrlB}, title \in Titles}
            \cup {CardOf(EmptyStr, <<116>>, ExtraOf(<<116>>))}

CacheValues == {EmptyStr, <<118>>, NoneVal}

Defaults == {EmptyStr, <<100>>}

\* expiry arguments: None, 0, 1 s
Expiries == {NoExpiry, 0, 1}

\* whether a call into the backend may raise in this run
Faults == IF faulty THEN BOOLEAN ELSE {FALSE}

NoKey == TopKey("", "")

Idle == [op |-> "none", key |-> NoKey, arg |-> EmptyStr, default |-> EmptyStr,
         ret |-> EmptyStr, raised |-> FALSE, failGet |-> FALSE, failSet |-> FALSE,
         before |-> EmptyStr]

\* the index string under key as a reader sees it now
IndexString(st, key) == IF key \in DOMAIN st THEN st[key][1] ELSE EmptyStr

\* the entry under key carries an expiry time
HasTtl(st, key) == key \in DOMAIN st /\ Truthy(st[key][2])

\* the ids that the records of the store are filed under
StoredIds(st) == {k.id : k \in {x \in DOMAIN st : x.kind = "raw"}}

\* None where a page or article limit is expected
NoLimit == -1

\* self._max_pages = 5, self._max_articles = None
DefaultMaxPages == 5

DefaultLimits == [max_pages |-> DefaultMaxPages, max_articles |-> NoLimit]

\* the largest limits a caller passes to set_limits
MaxPagesArg == 2

MaxCapArg == 2

WalkIdle == [pc |-> "idle", page_no |-> 0, current_url |-> 0, all_links |-> {},
             visit_list |-> <<>>]

\* no caller is inside _append_index
AppendersIdle == [a \in {} |-> 0]

\* no document is being stored
DocIdle == [pc |-> "none"]

\* run() has not been called on the instance: __init__ has set _card_data = []
\* and _is_crawled = False
PipeIdle ==
    [pc |-> "none", page_no |-> 0, current_url |-> 0, all_links |-> {},
     visit_list |-> <<>>, idx |-> 0, collected |-> 0, sess |-> 0, enrich_i |-> 0,
     card_data |-> <<>>, entity_data |-> 0, is_crawled |-> FALSE]

\* nothing has happened yet
HistEmpty ==
    [runs |-> 0, faults |-> 0, http_starts |-> 0, left_by |-> "none", left_in |-> "none",
     http_failed |-> "none", attempts |-> <<>>, visited |-> FALSE, enriched |-> <<>>,
     navs |-> <<>>,
     http_requests |-> 0, undelayed |-> FALSE, cards_before |-> 0]

\* the parts of the state that a specification leaves alone
NoPipeline ==
    /\ appenders = AppendersIdle
    /\ doc = DocIdle
    /\ pipe = PipeIdle
    /\ sessions = <<>>
    /\ hist = HistEmpty

-----------------------------------------------------------------------------
(* Actions of the store.                                                   *)

InitStore ==
    /\ crawler \in Crawlers
    /\ store = <<>>
    /\ clock = 0
    /\ written = <<>>
    /\ first_aid = <<>>
    /\ epoch = 0
    /\ last = Idle
    /\ site = <<>>
    /\ limits = DefaultLimits
    /\ walk = WalkIdle
    /\ fetched = <<>>
    /\ prev_visit = NoneList
    /\ NoPipeline

\* time passes
Tick ==
    /\ clock < MaxClock
    /\ clock' = clock + 1
    /\ last' = Idle
    /\ UNCHANGED <<crawler, faulty, store, written, first_aid, epoch, walkVars, pipeVars>>

\* redis_controller.invoke_trigger(1, [key, default, None]) called directly
InvokeGet(key, default) ==
    LET r == BackendGet(store, key, default, Now(clock))
    IN /\ store' = r.store
       /\ last' = [Idle EXCEPT !.op = "get", !.key = key, !.default = default,
                               !.ret = r.value]
       /\ UNCHANGED <<crawler, faulty, clock, written, first_aid, epoch, walkVars, pipeVars>>

\* redis_controller.invoke_trigger(2, [key, value, expiry]) called directly
InvokeSet(key, value, expiry) ==
    /\ store' = BackendSet(store, key, value, expiry, Now(clock))
    /\ written' = (key :> <<value, expiry, clock, HasTtl(store, key)>>) @@ written
    /\ last' = [Idle EXCEPT !.op = "set", !.key = key, !.arg = value]
    /\ UNCHANGED <<crawler, faulty, clock, first_aid, epoch, walkVars, pipeVars>>

\* self._redis_get(key, default) of the running crawler
RedisGet(key, default, fail) ==
    LET r == _redis_get(crawler, store, key, default, Now(clock), fail)
    IN /\ store' = r.store
       /\ last' = [Idle EXCEPT !.op = "_redis_get", !.key = key, !.default = default,
                               !.ret = r.ret, !.raised = r.raised, !.failGet = fail]
       /\ UNCHANGED <<crawler, faulty, clock, written, first_aid, epoch, walkVars, pipeVars>>

\* self._redis_set(key, value, expiry) of the running crawler
RedisSet(key, value, expiry, fail) ==
    LET r == _redis_set(crawler, store, key, value, expiry, Now(clock), fail)
    IN /\ store' = r.store
       /\ written' = IF fail THEN written
                     ELSE (key :> <<OrEmpty(value), expiry, clock, HasTtl(store, key)>>) @@ written
       /\ last' = [Idle EXCEPT !.op = "_redis_set", !.key = key, !.arg = value,
                               !.raised = r.raised, !.failSet = fail]
       /\ UNCHANGED <<crawler, faulty, clock, first_aid, epoch, walkVars, pipeVars>>

\* reset_cache(): self._redis_set("<NS>:last_crawl", "", 60)
ResetCache(fail) == RedisSet(last_crawl_key(crawler), EmptyStr, 60, fail)

\* self._append_index(self._raw_index_key, item_id)
AppendIndex(item_id, failGet, failSet) ==
    LET key == raw_index_key(crawler)
        r == _append_index(crawler, store, key, item_id, Now(clock), failGet, failSet)
    IN /\ Cardinality(Range(IndexParts(IndexString(store, key))) \cup {item_id}) <= MaxRecords
       /\ store' = r.store
       /\ last' = [Idle EXCEPT !.op = "_append_index", !.key = key, !.arg = item_id,
                               !.raised = r.raised, !.failGet = failGet,
                               !.failSet = failSet,
                               !.before = IndexString(store, key)]
       /\ UNCHANGED <<crawler, faulty, clock, written, first_aid, epoch, walkVars, pipeVars>>

\* self._store_raw_card(card), as the article loop calls it
StoreRawCard(card, failAt) ==
    /\ Cardinality(StoredIds(store) \cup {identify(card, clock)}) <= MaxCards
    /\ \E r \in {_store_raw_card(crawler, store, card, clock, failAt)} :
          /\ store' = r.store
          /\ first_aid' = IF card.m_url = EmptyStr \/ card.m_url \in DOMAIN first_aid
                          THEN first_aid
                          ELSE (card.m_url :> <<r.aid, card.m_title, epoch>>) @@ first_aid
          /\ last' = [Idle EXCEPT !.op = "_store_raw_card", !.key = raw_index_key(crawler),
                                  !.arg = card.m_url, !.default = card.m_title,
                                  !.ret = r.aid, !.raised = r.raised,
                                  !.failGet = failAt # 0,
                                  !.before = IndexString(store, raw_index_key(crawler))]
    /\ UNCHANGED <<crawler, faulty, clock, written, epoch, walkVars, pipeVars>>

\* the process ends and a new one starts: redis_controller() is a new, empty
\* in-memory store, and time has moved on
Restart ==
    /\ epoch = 0
    /\ clock < MaxClock
    /\ store' = <<>>
    /\ written' = <<>>
    /\ epoch' = 1
    /\ clock' = clock + 1
    /\ last' = Idle
    /\ UNCHANGED <<crawler, faulty, first_aid, walkVars, pipeVars>>

CacheKeys == {last_crawl_key(crawler)}

\* ids of records: the digests of the article URLs
SomeIds == {Sha1(u) : u \in Urls \ {UrlAB}}

\* calls on the cache: the backend itself and the wrappers over it
NextCache ==
    \/ Tick
    \/ \E key \in CacheKeys, d \in Defaults : InvokeGet(key, d)
    \/ \E key \in CacheKeys, v \in CacheValues, e \in Expiries : InvokeSet(key, v, e)
    \/ \E key \in CacheKeys, d \in Defaults, f \in Faults : RedisGet(key, d, f)
    \/ \E key \in CacheKeys, v \in CacheValues, e \in Expiries, f \in Faults :
          RedisSet(key, v, e, f)
    \/ \E f \in Faults : ResetCache(f)

\* the writers of the content-addressable store
NextStore ==
    \/ Tick
    \/ \E c \in Cards : StoreRawCard(c, 0)
    \/ Restart

\* the cache on the repository's in-memory backend, which does not raise
Init == InitStore /\ faulty = FALSE

Spec == Init /\ [][NextCache]_vars

\* the store writers on that backend
SpecStore == Init /\ [][NextStore]_vars

\* the index on that backend
NextIndex ==
    \/ Tick
    \/ \E d \in Defaults, f \in Faults : RedisGet(raw_index_key(crawler), d, f)
    \/ \E id \in SomeIds, fg \in Faults, fs \in Faults : AppendIndex(id, fg, fs)

SpecIndex == Init /\ [][NextIndex]_vars

\* the cache and its wrappers on a backend whose calls may raise
InitFault == InitStore /\ faulty = TRUE

SpecCacheFault == InitFault /\ [][NextCache]_vars

\* the index on a backend whose calls may raise

SpecIndexFault == InitFault /\ [][NextIndex]_vars

-----------------------------------------------------------------------------
(* Link discovery.                                                         *)

\* set_limits(max_pages, max_articles): a limit is taken when it is not None and >= 1
set_limits(lim, max_pages, max_articles) ==
    [max_pages |-> IF max_pages # NoLimit /\ max_pages >= 1
                   THEN max_pages ELSE lim.max_pages,
     max_articles |-> IF max_articles # NoLimit /\ max_articles >= 1
                      THEN max_articles ELSE lim.max_articles]

\* CrawlerBase.collect_links_playwright and _thehackernews ask the page for the
\* next page; _hackread and _csocybercrime build the URL of page n
UsesFinder(w) == w \in {"CrawlerBase", "_thehackernews"}

\* the article links the extractor finds on an index page (none on a page
\* the site does not have)
PageLinks(p) == IF p \in DOMAIN site THEN site[p].links ELSE {}

\* the next page the finder finds on an index page (0: none)
FindNext(p) == IF p \in DOMAIN site THEN site[p].next ELSE 0

RECURSIVE LexLess(_, _)
\* a < b on Python strings: by code point, a proper prefix first
LexLess(a, b) ==
    IF b = <<>> THEN FALSE
    ELSE IF a = <<>> THEN TRUE
    ELSE IF Head(a) # Head(b) THEN Head(a) < Head(b)
    ELSE LexLess(Tail(a), Tail(b))

RECURSIVE InsertSorted(_, _)
InsertSorted(x, seq) ==
    IF seq = <<>> THEN <<x>>
    ELSE IF LexLess(Head(seq), x) THEN <<Head(seq)>> \o InsertSorted(x, Tail(seq))
    ELSE <<x>> \o seq

\* sorted(all_links), given the order in which the set hands out its members
sorted_NotSorted(order) == order

RECURSIVE sorted(_)
sorted(order) ==
    IF order = <<>> THEN <<>> ELSE InsertSorted(Head(order), sorted(Tail(order)))

\* the orders in which iterating a set may hand out its members
Enumerations(S) == {f \in [1..Cardinality(S) -> S] : Range(f) = S}

\* if max_articles: visit_list = visit_list[:max_articles]
Truncate_OneMore(list, max_articles) ==
    IF Truthy(max_articles) /\ max_articles + 1 < Len(list)
    THEN SubSeq(list, 1, max_articles + 1) ELSE list

Truncate(list, max_articles) ==
    IF Truthy(max_articles) /\ max_articles < Len(list)
    THEN SubSeq(list, 1, max_articles) ELSE list

\* if max_articles and len(all_links) >= max_articles: break
CapReached_Never(all_links, max_articles) == FALSE

CapReached(all_links, max_articles) ==
    Truthy(max_articles) /\ Cardinality(all_links) >= max_articles

\* if not next_url or next_url == current_url: break
LoopGuard_NoSelfTest(next_url, current_url) == next_url = 0

LoopGuard_EmptyPageStops(next_url, current_url) ==
    next_url = 0 \/ next_url = current_url \/ PageLinks(current_url) = {}

LoopGuard(next_url, current_url) == next_url = 0 \/ next_url = current_url

\* the sites: two index pages with any links among "A", "B", "C" and any next
\* page, and a third page with the link "AB" and no next page
Sites ==
    {(1 :> [links |-> l1, next |-> n1]) @@ (2 :> [links |-> l2, next |-> n2])
        @@ (3 :> [links |-> {UrlAB}, next |-> 0]) :
     l1 \in SUBSET {UrlA, UrlB, UrlC}, l2 \in SUBSET {UrlA, UrlB, UrlC},
     n1 \in 0..2, n2 \in 0..3}

Engines == Crawlers \cup {"CrawlerBase"}

InitWalk ==
    /\ crawler \in Engines
    /\ site \in Sites
    /\ ~UsesFinder(crawler) => \A p \in DOMAIN site : site[p].next = 0
    /\ limits = DefaultLimits
    /\ walk = WalkIdle
    /\ fetched = <<>>
    /\ prev_visit = NoneList
    /\ NoPipeline
    /\ faulty = FALSE
    /\ store = <<>>
    /\ clock = 0
    /\ written = <<>>
    /\ first_aid = <<>>
    /\ epoch = 0
    /\ last = Idle

\* set_limits(max_pages, max_articles), before a run
SetLimits(max_pages, max_articles) ==
    /\ walk.pc = "idle"
    /\ prev_visit = NoneList
    /\ NoPipeline
    /\ limits' = set_limits(limits, max_pages, max_articles)
    /\ UNCHANGED <<crawler, storeVars, pipeVars, site, walk, fetched, prev_visit>>

\* the seed page is opened: page.goto(seed_url)
StartDiscovery ==
    /\ walk.pc = "idle"
    /\ walk' = [WalkIdle EXCEPT !.pc = "walking", !.page_no = 1, !.current_url = 1]
    /\ fetched' = <<1>>
    /\ UNCHANGED <<crawler, storeVars, pipeVars, site, limits, prev_visit>>

\* the walk ends: visit_list = sorted(all_links), cut to max_articles
Finish(all_links, pages) ==
    /\ \E order \in Enumerations(all_links) :
          walk' = [walk EXCEPT !.pc = "done", !.all_links = all_links,
                               !.visit_list = Truncate(sorted(order), limits.max_articles)]
    /\ fetched' = pages

\* one pass of the loop over the index pages: the links of the current page
\* are added; the walk ends at the cap, at the page limit or without a next
\* page, and goes to the next page otherwise
WalkPage ==
    /\ walk.pc = "walking"
    /\ LET all_links == walk.all_links \cup PageLinks(walk.current_url)
           next_url == IF UsesFinder(crawler) THEN FindNext(walk.current_url)
                       ELSE walk.page_no + 1
           last_pass == walk.page_no >= limits.max_pages
       IN IF CapReached(all_links, limits.max_articles) THEN Finish(all_links, fetched)
          ELSE IF UsesFinder(crawler)
          THEN IF LoopGuard(next_url, walk.current_url) THEN Finish(all_links, fetched)
               ELSE IF last_pass THEN Finish(all_links, Append(fetched, next_url))
               ELSE /\ walk' = [walk EXCEPT !.page_no = @ + 1, !.current_url = next_url,
                                            !.all_links = all_links]
                    /\ fetched' = Append(fetched, next_url)
          ELSE IF last_pass THEN Finish(all_links, fetched)
               ELSE /\ walk' = [walk EXCEPT !.page_no = @ + 1, !.current_url = next_url,
                                            !.all_links = all_links]
                    /\ fetched' = Append(fetched, next_url)
    /\ UNCHANGED <<crawler, storeVars, pipeVars, site, limits, prev_visit>>

\* discovery is run again over the same pages with the same limits
Rerun ==
    /\ walk.pc = "done"
    /\ prev_visit = NoneList
    /\ NoPipeline
    /\ prev_visit' = walk.visit_list
    /\ walk' = WalkIdle
    /\ fetched' = <<>>
    /\ UNCHANGED <<crawler, storeVars, pipeVars, site, limits>>

NextWalk ==
    \/ \E mp \in {NoLimit} \cup 0..MaxPagesArg, ma \in {NoLimit} \cup 0..MaxCapArg :
          SetLimits(mp, ma)
    \/ StartDiscovery
    \/ WalkPage
    \/ Rerun

SpecDiscovery == InitWalk /\ [][NextWalk]_vars

-----------------------------------------------------------------------------
(* _append_index under concurrent callers.  The read of the index string   *)
(* (line 29) and its rewrite (lines 30-33) are two steps with no lock      *)
(* between them; the callers share one backend.                            *)

Appenders == {1, 2}

AppenderIdle == [pc |-> "idle", item_id |-> EmptyStr, cur |-> EmptyStr]

\* parts = ...; if item_id not in parts: parts.append(item_id); set(index_key, "|".join(parts))
\* on the string cur the caller read before
AppendRewrite_Rereads(w, st, index_key, cur, item_id, now) ==
    LET parts == IndexParts(IndexString(st, index_key))
    IN IF item_id \notin Range(parts)
       THEN _redis_set(w, st, index_key, Join(Append(parts, item_id), PIPE),
                       NoExpiry, now, FALSE).store
       ELSE st

AppendRewrite(w, st, index_key, cur, item_id, now) ==
    LET parts == IndexParts(cur)
    IN IF item_id \notin Range(parts)
       THEN _redis_set(w, st, index_key, Join(Append(parts, item_id), PIPE),
                       NoExpiry, now, FALSE).store
       ELSE st

InitAppenders ==
    /\ crawler \in Crawlers
    /\ faulty = FALSE
    /\ store = <<>>
    /\ clock = 0
    /\ written = <<>>
    /\ first_aid = <<>>
    /\ epoch = 0
    /\ last = Idle
    /\ site = <<>>
    /\ limits = DefaultLimits
    /\ walk = WalkIdle
    /\ fetched = <<>>
    /\ prev_visit = NoneList
    /\ appenders = [a \in Appenders |-> AppenderIdle]
    /\ doc = DocIdle
    /\ pipe = PipeIdle
    /\ sessions = <<>>
    /\ hist = HistEmpty

\* cur = self._redis_get(index_key, "")
AppendRead(a, item_id) ==
    /\ appenders[a].pc = "idle"
    /\ LET g == _redis_get(crawler, store, raw_index_key(crawler), EmptyStr, Now(clock), FALSE)
       IN /\ store' = g.store
          /\ appenders' = [appenders EXCEPT ![a] = [pc |-> "read", item_id |-> item_id,
                                                    cur |-> g.ret]]
    /\ UNCHANGED <<crawler, faulty, clock, written, first_aid, epoch, last, walkVars,
                   doc, pipe, sessions, hist>>

\* the rest of _append_index, on the string read before
AppendWrite(a) ==
    /\ appenders[a].pc = "read"
    /\ store' = AppendRewrite(crawler, store, raw_index_key(crawler), appenders[a].cur,
                              appenders[a].item_id, Now(clock))
    /\ appenders' = [appenders EXCEPT ![a].pc = "done"]
    /\ UNCHANGED <<crawler, faulty, clock, written, first_aid, epoch, last, walkVars,
                   doc, pipe, sessions, hist>>

\* the caller goes on and may call _append_index again
AppendForget(a) ==
    /\ appenders[a].pc = "done"
    /\ appenders' = [appenders EXCEPT ![a] = AppenderIdle]
    /\ UNCHANGED <<crawler, storeVars, walkVars, doc, pipe, sessions, hist>>

\* three ids to append
AppendIds == SomeIds \cup {Sha1(UrlC)}

NextAppenders ==
    \/ \E a \in Appenders, item_id \in AppendIds : AppendRead(a, item_id)
    \/ \E a \in Appenders : AppendWrite(a)
    \/ \E a \in Appenders : AppendForget(a)

SpecAppenders == InitAppenders /\ [][NextAppenders]_vars

-----------------------------------------------------------------------------
(* The processed-record flattener and its reader.  A structure is a node   *)
(* [t, v, items]: t is "dict", "list", "str", "int" or "none"; v holds the *)
(* characters of a str and the number of an int; items holds the entries   *)
(* [k, val] of a dict in insertion order and the elements of a list.       *)

StrNode(s) == [t |-> "str", v |-> s, items |-> <<>>]

IntNode(n) == [t |-> "int", v |-> <<n>>, items |-> <<>>]

NoneNode == [t |-> "none", v |-> <<>>, items |-> <<>>]

ListNode(elems) ==
    [t |-> "list", v |-> <<>>,
     items |-> [i \in 1..Len(elems) |-> [k |-> EmptyStr, val |-> elems[i]]]]

DictNode(entries) == [t |-> "dict", v |-> <<>>, items |-> entries]

\* the ":" of the keys, and "count"
COLON == 58

CountSeg == <<99, 111, 117, 110, 116>>

\* str(value) of a scalar
StrOf(node) == IF node.t = "int" THEN Str(node.v[1]) ELSE node.v

RECURSIVE write_obj(_, _)
RECURSIVE write_items(_, _, _, _)
\* write_obj(prefix, obj): the calls self._redis_set(key, value) it makes, in order
write_obj_NoCount(prefix, obj) ==
    IF obj.t = "dict" THEN write_items(prefix, obj.items, 1, FALSE)
    ELSE IF obj.t = "list" THEN write_items(prefix, obj.items, 1, TRUE)
    ELSE <<<<prefix, IF obj.t = "none" THEN StrNode(EmptyStr) ELSE obj>>>>

write_obj(prefix, obj) ==
    IF obj.t = "dict" THEN write_items(prefix, obj.items, 1, FALSE)
    ELSE IF obj.t = "list"
    THEN <<<<prefix \o <<COLON>> \o CountSeg, IntNode(Len(obj.items))>>>>
             \o write_items(prefix, obj.items, 1, TRUE)
    ELSE <<<<prefix, IF obj.t = "none" THEN StrNode(EmptyStr) ELSE obj>>>>

\* for k, v in obj.items() and for i, v in enumerate(obj)
write_items(prefix, items, i, isList) ==
    IF i > Len(items) THEN <<>>
    ELSE write_obj(prefix \o <<COLON>> \o (IF isList THEN Str(i - 1) ELSE items[i].k),
                   items[i].val)
         \o write_items(prefix, items, i + 1, isList)

\* f"{NS}:processed:{aid}" and the keys under it; path starts with the id
ProcKey(ns, path) == [ns |-> ns, kind |-> "processed", id |-> path, field |-> "", idx |-> NoIdx]

\* _store_processed without its index append: the writes of write_obj(base, processed)
FlattenWrites(w, aid, processed) ==
    LET calls == write_obj(aid, processed)
    IN [i \in 1..Len(calls) |-> <<ProcKey(Namespace(w), calls[i][1]), StrOf(calls[i][2])>>]

\* ui_server.rget(key, default)
rget(st, ns, path, default, now) ==
    LET val == BackendGet(st, ProcKey(ns, path), default, now).value
    IN IF val = NoneVal THEN default ELSE val

IsDigits(s) == s # <<>> /\ \A i \in 1..Len(s) : s[i] \in DIGIT0..(DIGIT0 + 9)

RECURSIVE ParseInt(_)
\* int(val) of a string of decimal digits
ParseInt(s) == IF s = <<>> THEN 0 ELSE 10 * ParseInt(SubSeq(s, 1, Len(s) - 1)) + (s[Len(s)] - DIGIT0)

\* ui_server.rget_int(key, default): int(val) unless val is "" or int() raises
rget_int(st, ns, path, default, now) ==
    LET val == rget(st, ns, path, EmptyStr, now)
    IN IF IsDigits(val) THEN ParseInt(val) ELSE default

RECURSIVE ReadBack(_, _, _, _, _)
\* the reader that knows the shape: each key of a mapping, <base>:count and
\* <base>:<i> of a sequence, rget of a scalar (load_processed_card is this
\* reader for the shape the NLP stage writes)
ReadBack(st, ns, prefix, shape, now) ==
    IF shape.t = "dict"
    THEN DictNode([i \in 1..Len(shape.items) |->
                      [k |-> shape.items[i].k,
                       val |-> ReadBack(st, ns, prefix \o <<COLON>> \o shape.items[i].k,
                                        shape.items[i].val, now)]])
    ELSE IF shape.t = "list"
    THEN LET n == rget_int(st, ns, prefix \o <<COLON>> \o CountSeg, 0, now)
         IN ListNode([i \in 1..n |->
                         ReadBack(st, ns, prefix \o <<COLON>> \o Str(i - 1),
                                  IF i <= Len(shape.items) THEN shape.items[i].val
                                  ELSE NoneNode, now)])
    ELSE StrNode(rget(st, ns, prefix, EmptyStr, now))

\* the longest list of a processed document
MaxListLen == 2

KeyA == <<97>>

KeyB == <<98>>

KeyC == <<99>>

\* a mapping key that holds a ":": "a:0"
KeyA0 == <<97, 58, 48>>

Scalars == {StrNode(<<120>>), IntNode(1), NoneNode}

Inner == Scalars \cup {DictNode(<<[k |-> KeyB, val |-> x]>>) : x \in Scalars}

Lists == {ListNode(f) : f \in UNION {[1..n -> Inner] : n \in 0..MaxListLen}}

Deep == {DictNode(<<[k |-> KeyB, val |-> ListNode(<<x>>)]>>) : x \in Inner}

\* the processed documents stored: {"a": ..., "c": ...} and {"a": [...], "a:0": ...}
Docs ==
    {DictNode(<<[k |-> KeyA, val |-> x], [k |-> KeyC, val |-> y]>>) :
        x \in Lists \cup Scalars, y \in Scalars \cup Deep}
    \cup {DictNode(<<[k |-> KeyA, val |-> ListNode(<<x>>)], [k |-> KeyA0, val |-> y]>>) :
        x \in Scalars, y \in Scalars}

\* the id under which the document is stored
DocAid == Sha1(UrlA)

InitFlatten ==
    /\ crawler \in Crawlers
    /\ faulty = FALSE
    /\ store = <<>>
    /\ clock = 0
    /\ written = <<>>
    /\ first_aid = <<>>
    /\ epoch = 0
    /\ last = Idle
    /\ site = <<>>
    /\ limits = DefaultLimits
    /\ walk = WalkIdle
    /\ fetched = <<>>
    /\ prev_visit = NoneList
    /\ appenders = AppendersIdle
    /\ \E obj \in Docs : doc = [pc |-> "new", obj |-> obj, loaded |-> NoneNode]
    /\ pipe = PipeIdle
    /\ sessions = <<>>
    /\ hist = HistEmpty

\* write_obj(base, processed)
StoreProcessed ==
    /\ doc.pc = "new"
    /\ store' = ApplyWrites(crawler, store, FlattenWrites(crawler, DocAid, doc.obj),
                            Now(clock), 0, 1).store
    /\ doc' = [doc EXCEPT !.pc = "stored"]
    /\ UNCHANGED <<crawler, faulty, clock, written, first_aid, epoch, last, walkVars,
                   appenders, pipe, sessions, hist>>

\* the reader reads the document back by the shape it knows
LoadProcessed ==
    /\ doc.pc = "stored"
    /\ doc' = [doc EXCEPT !.pc = "loaded",
                          !.loaded = ReadBack(store, Namespace(crawler), DocAid, doc.obj,
                                              Now(clock))]
    /\ UNCHANGED <<crawler, storeVars, walkVars, appenders, pipe, sessions, hist>>

NextFlatten == StoreProcessed \/ LoadProcessed

SpecFlatten == InitFlatten /\ [][NextFlatten]_vars

-----------------------------------------------------------------------------
(* run(): the browser strategy, the HTTP fallback and the enrichment.      *)
(* What the network, the browser and the NLP stage do is chosen at each    *)
(* step; the runs of one execution hold at most MaxFaults failures.        *)

\* run() is called at most this often on the instance
MaxRuns == 2

\* failures (raised navigations, launches, fetches, parses, closes, enrichments) per execution
MaxFaults == 2

\* an outcome other than "ok" is a failure and needs room in the budget
Outcomes(all) == IF hist.faults < MaxFaults THEN all ELSE {"ok"}

Cost(outcome) == IF outcome = "ok" THEN 0 ELSE 1

\* _hackread._launch_browser reads self._chromium_exe, which __init__ never
\* sets (line 53 is a comment): every launch raises AttributeError
LaunchRaises(w, outcome) == w = "_hackread" \/ outcome = "launch"

\* _csocybercrime walks and visits through the helpers of CrawlerBase, each
\* call with a session of its own; the other two keep one session
OwnSessions(w) == UsesCrawlerBase(w)

\* a session: a browser with its context and page, or a requests.Session.
\* phases: the phases in which it served a navigation; erred: a navigation
\* or parse on it raised; closed: its close() was called; stopped: the
\* Playwright driver was shut down while it was open; proxy: use_proxy of
\* its launch
NewSession(kind, proxy) ==
    [kind |-> kind, proxy |-> proxy, phases |-> {}, erred |-> FALSE,
     nav_after_error |-> FALSE, closed |-> FALSE, stopped |-> FALSE]

\* page.goto(...) on session s in a phase, raising or not
Navigate(ss, s, phase, ok) ==
    [ss EXCEPT ![s].phases = @ \cup {phase},
               ![s].nav_after_error = @ \/ ss[s].erred,
               ![s].erred = @ \/ ~ok]

\* browser.close() or the closes of page, context and browser
CloseSession(ss, s) == IF s = 0 THEN ss ELSE [ss EXCEPT ![s].closed = TRUE]

\* leaving "with sync_playwright() as p": the driver is shut down
StopDriver(ss) ==
    [i \in 1..Len(ss) |-> IF ss[i].kind = "browser" /\ ~ss[i].closed
                          THEN [ss[i] EXCEPT !.stopped = TRUE] ELSE ss[i]]

\* one page.goto of the browser strategy; retry: it is the goto of the
\* except handler of the seed navigation
NavEntry(kind, target, proxy, retry, ok, s) ==
    [kind |-> kind, target |-> target, proxy |-> proxy, retry |-> retry, ok |-> ok,
     sess |-> s]

\* the site of the runs: page 1 links to "A" and to page 2, page 2 links to "B"
RunSite ==
    (1 :> [links |-> {UrlA}, next |-> 2]) @@ (2 :> [links |-> {UrlB}, next |-> 0])

InitRun ==
    /\ crawler \in Crawlers
    /\ faulty \in BOOLEAN
    /\ store = <<>>
    /\ clock = 0
    /\ written = <<>>
    /\ first_aid = <<>>
    /\ epoch = 0
    /\ last = Idle
    /\ site = RunSite
    /\ \E mp \in 1..MaxPagesArg : limits = set_limits(DefaultLimits, mp, NoLimit)
    /\ walk = WalkIdle
    /\ fetched = <<>>
    /\ prev_visit = NoneList
    /\ appenders = AppendersIdle
    /\ doc = DocIdle
    /\ pipe = PipeIdle
    /\ sessions = <<>>
    /\ hist = HistEmpty

\* run() is called: parse_leak_data() starts
RunCall ==
    /\ pipe.pc \in {"none", "returned", "raised"}
    /\ hist.runs < MaxRuns
    /\ pipe' = [PipeIdle EXCEPT !.pc = "b_open", !.page_no = 1, !.current_url = 1,
                                !.card_data = pipe.card_data,
                                !.entity_data = pipe.entity_data,
                                !.is_crawled = pipe.is_crawled]
    /\ sessions' = <<>>
    /\ hist' = [HistEmpty EXCEPT !.runs = hist.runs + 1, !.faults = hist.faults,
                                 !.enriched = hist.enriched,
                                 !.cards_before = Len(pipe.card_data)]
    /\ UNCHANGED <<crawler, storeVars, walkVars, appenders, doc>>

\* the exception leaves parse_leak_data: the with-block shuts the driver down,
\* and the except clause of run() takes it
LeaveBrowser_Propagates(ss, h, by, navs) ==
    /\ pipe' = [pipe EXCEPT !.pc = "raised"]
    /\ sessions' = StopDriver(ss)
    /\ hist' = [h EXCEPT !.left_by = by, !.navs = navs, !.left_in = "discovery"]

LeaveBrowser(ss, h, by, navs) ==
    /\ pipe' = [pipe EXCEPT !.pc = "b_raised"]
    /\ sessions' = StopDriver(ss)
    /\ hist' = [h EXCEPT !.left_by = by, !.navs = navs,
                         !.left_in = IF pipe.pc \in {"v_open", "v_retry"}
                                     THEN "visiting" ELSE "discovery"]

\* the try block that opens the seed page: launch with the proxy, new page, goto
BrowserOpen(outcome) ==
    /\ pipe.pc = "b_open"
    /\ crawler = "_hackread" => outcome = "ok"
    /\ LET h == [hist EXCEPT !.faults = @ + Cost(outcome)]
           s == Len(sessions) + 1
       IN IF LaunchRaises(crawler, outcome)
          THEN /\ pipe' = [pipe EXCEPT !.pc = "b_retry", !.sess = 0]
               /\ sessions' = sessions
               /\ hist' = IF outcome = "launch" THEN h ELSE hist
          ELSE /\ outcome # "launch"
               /\ sessions' = Navigate(Append(sessions, NewSession("browser", TRUE)), s,
                                       "discovery", outcome = "ok")
               /\ hist' = [h EXCEPT !.navs = Append(@, NavEntry("index", pipe.current_url, TRUE,
                                                               FALSE, outcome = "ok", s))]
               /\ pipe' = [pipe EXCEPT !.pc = IF outcome = "ok" THEN "b_walk" ELSE "b_retry",
                                       !.sess = s]
    /\ UNCHANGED <<crawler, storeVars, walkVars, appenders, doc>>

\* the except handler: context.close(), browser.close(), then launch without
\* the proxy, new page, goto.  In CrawlerBase one try holds both closes, so a
\* raising context.close() skips browser.close().
BrowserRetry(outcome) ==
    /\ pipe.pc = "b_retry"
    /\ outcome = "close" => (pipe.sess # 0 /\ OwnSessions(crawler))
    /\ crawler = "_hackread" => outcome = "ok"
    /\ LET h == [hist EXCEPT !.faults = @ + Cost(outcome)]
           closed == IF outcome = "close" THEN sessions ELSE CloseSession(sessions, pipe.sess)
           s == Len(sessions) + 1
           opened == Append(closed, NewSession("browser", FALSE))
           entry == NavEntry("index", pipe.current_url, FALSE, TRUE, outcome # "nav", s)
       IN IF LaunchRaises(crawler, outcome)
          THEN LeaveBrowser(closed, IF outcome = "launch" THEN h ELSE hist, "launch", hist.navs)
          ELSE IF outcome = "nav"
          THEN LeaveBrowser(Navigate(opened, s, "discovery", FALSE), h, "navigation",
                            Append(hist.navs, entry))
          ELSE /\ sessions' = Navigate(opened, s, "discovery", TRUE)
               /\ hist' = [h EXCEPT !.navs = Append(@, entry)]
               /\ pipe' = [pipe EXCEPT !.pc = "b_walk", !.sess = s]
    /\ UNCHANGED <<crawler, storeVars, walkVars, appenders, doc>>

\* the walk is over: visit_list = sorted(all_links), cut to max_articles
VisitListOf(all_links) ==
    LET order == CHOOSE o \in Enumerations(all_links) : TRUE
    IN Truncate(sorted(order), limits.max_articles)

\* one pass of the pagination loop of the browser strategy.  With sessions of
\* its own (collect_links_playwright(seed, 1, extract, None)) the pass ends the
\* helper: page, context and browser are closed and the caller goes to the
\* next page number or to the visiting.
BrowserWalk(outcome) ==
    /\ pipe.pc = "b_walk"
    /\ LET all_links == pipe.all_links \cup PageLinks(pipe.current_url)
           next_url == IF UsesFinder(crawler) THEN FindNext(pipe.current_url)
                       ELSE pipe.page_no + 1
           last_pass == pipe.page_no >= limits.max_pages
           stop == \/ CapReached(all_links, limits.max_articles)
                   \/ IF UsesFinder(crawler) THEN LoopGuard(next_url, pipe.current_url)
                      ELSE last_pass
           h == [hist EXCEPT !.faults = @ + Cost(outcome)]
           entry == NavEntry("index", next_url,
                             IF pipe.sess = 0 THEN TRUE ELSE sessions[pipe.sess].proxy,
                             FALSE, outcome = "ok", pipe.sess)
           visiting == [pipe EXCEPT !.pc = IF OwnSessions(crawler) THEN "v_open" ELSE "b_visit",
                                    !.all_links = all_links,
                                    !.visit_list = VisitListOf(all_links), !.idx = 1,
                                    !.sess = IF OwnSessions(crawler) THEN 0 ELSE pipe.sess]
       IN IF OwnSessions(crawler)
          THEN /\ outcome = "ok"
               /\ sessions' = CloseSession(sessions, pipe.sess)
               /\ hist' = hist
               /\ pipe' = IF stop THEN visiting
                          ELSE [pipe EXCEPT !.pc = "b_open", !.all_links = all_links,
                                            !.page_no = @ + 1, !.current_url = next_url,
                                            !.sess = 0]
          ELSE IF stop
          THEN /\ outcome = "ok"
               /\ pipe' = visiting
               /\ UNCHANGED <<sessions, hist>>
          ELSE IF outcome = "nav"
          THEN LeaveBrowser(Navigate(sessions, pipe.sess, "discovery", FALSE), h,
                            "navigation", Append(hist.navs, entry))
          ELSE /\ sessions' = Navigate(sessions, pipe.sess, "discovery", TRUE)
               /\ hist' = [h EXCEPT !.navs = Append(@, entry)]
               /\ pipe' = IF last_pass THEN visiting
                          ELSE [pipe EXCEPT !.all_links = all_links, !.page_no = @ + 1,
                                            !.current_url = next_url]
    /\ UNCHANGED <<crawler, storeVars, walkVars, appenders, doc>>

\* visit_links_playwright: launch with the proxy and new page
VisitOpen(outcome) ==
    /\ pipe.pc = "v_open"
    /\ hist' = [hist EXCEPT !.faults = @ + Cost(outcome)]
    /\ IF LaunchRaises(crawler, outcome)
       THEN /\ pipe' = [pipe EXCEPT !.pc = "v_retry"]
            /\ sessions' = sessions
       ELSE /\ pipe' = [pipe EXCEPT !.pc = "b_visit", !.sess = Len(sessions) + 1]
            /\ sessions' = Append(sessions, NewSession("browser", TRUE))
    /\ UNCHANGED <<crawler, storeVars, walkVars, appenders, doc>>

\* its except handler: launch without the proxy and new page
VisitRetry(outcome) ==
    /\ pipe.pc = "v_retry"
    /\ IF LaunchRaises(crawler, outcome)
       THEN LeaveBrowser(sessions, [hist EXCEPT !.faults = @ + Cost(outcome)], "launch",
                         hist.navs)
       ELSE /\ pipe' = [pipe EXCEPT !.pc = "b_visit", !.sess = Len(sessions) + 1]
            /\ sessions' = Append(sessions, NewSession("browser", FALSE))
            /\ hist' = hist
    /\ UNCHANGED <<crawler, storeVars, walkVars, appenders, doc>>

\* the position the visiting loop goes to after a link, whatever became of it
\* ("except Exception: continue")
NextLink_Retries(idx, outcome) == IF outcome = "ok" THEN idx + 1 ELSE idx

NextLink(idx, outcome) == idx + 1

\* the card the parser builds from the article page of link
CardFor(link) == CardOf(link, <<116>>, ExtraOf(<<116>>))

\* the end of a pass of a visiting loop whose article was parsed:
\* self._card_data.append(card); self._entity_data.append(entity);
\* aid = self._store_raw_card(card); collected += 1.  With the outcome
\* "store" the backend raises in the first write of the raw record.
Collect(p, st, link, outcome) ==
    IF outcome \notin {"ok", "store"} THEN [pipe |-> p, store |-> st]
    ELSE LET r == _store_raw_card(crawler, st, CardFor(link), clock,
                                  IF outcome = "store" THEN 1 ELSE 0)
         IN [pipe |-> [p EXCEPT !.card_data = Append(@, link),
                                !.entity_data = @ + 1,
                                !.collected = @ + (IF r.raised THEN 0 ELSE 1)],
             store |-> r.store]

\* one pass of the visiting loop of the browser strategy: page.goto(link),
\* parse, card_data.append(card), _store_raw_card(card); an exception of the
\* goto ("nav") or of the parse ("parse") goes to the next link
VisitLink(outcome) ==
    /\ pipe.pc = "b_visit"
    /\ pipe.idx <= Len(pipe.visit_list)
    /\ outcome = "store" => faulty
    /\ LET link == pipe.visit_list[pipe.idx]
           ss == Navigate(sessions, pipe.sess, "visiting", outcome # "nav")
       IN /\ sessions' = IF outcome = "parse" THEN [ss EXCEPT ![pipe.sess].erred = TRUE] ELSE ss
          /\ hist' = [hist EXCEPT !.faults = @ + Cost(outcome),
                                  !.attempts = Append(@, link),
                                  !.navs = Append(@, NavEntry("article", pipe.idx,
                                                              sessions[pipe.sess].proxy, FALSE,
                                                              outcome # "nav", pipe.sess))]
          /\ \E c \in {Collect([pipe EXCEPT !.idx = NextLink(pipe.idx, outcome)], store, link,
                                outcome)} :
                pipe' = c.pipe /\ store' = c.store
    /\ UNCHANGED <<crawler, faulty, clock, written, first_aid, epoch, last, walkVars,
                   appenders, doc>>

\* after the last link: page.close(), context.close(), browser.close(), each
\* in a try of its own, and the with-block ends
BrowserClose ==
    /\ pipe.pc = "b_visit"
    /\ pipe.idx > Len(pipe.visit_list)
    /\ sessions' = StopDriver(CloseSession(sessions, pipe.sess))
    /\ hist' = [hist EXCEPT !.visited = TRUE]
    /\ pipe' = [pipe EXCEPT !.pc = "enrich", !.enrich_i = 1]
    /\ UNCHANGED <<crawler, storeVars, walkVars, appenders, doc>>

\* run() catches the exception of parse_leak_data and calls
\* _run_with_requests(): session = self._make_requests_session()
Fallback_Resumes ==
    /\ pipe.pc = "b_raised"
    /\ sessions' = Append(sessions, NewSession("http", TRUE))
    /\ hist' = [hist EXCEPT !.http_starts = @ + 1]
    /\ pipe' = [pipe EXCEPT !.pc = "h_visit", !.idx = 1, !.sess = Len(sessions) + 1]
    /\ UNCHANGED <<crawler, storeVars, walkVars, appenders, doc>>

Fallback ==
    /\ pipe.pc = "b_raised"
    /\ sessions' = Append(sessions, NewSession("http", TRUE))
    /\ hist' = [hist EXCEPT !.http_starts = @ + 1, !.attempts = <<>>]
    /\ pipe' = [pipe EXCEPT !.pc = "h_walk", !.page_no = 1, !.current_url = 1,
                            !.all_links = {}, !.visit_list = <<>>, !.idx = 0,
                            !.collected = 0, !.sess = Len(sessions) + 1]
    /\ UNCHANGED <<crawler, storeVars, walkVars, appenders, doc>>

\* one pass of the pagination loop of the HTTP strategy: session.get of the
\* index page raises ("raise"), answers with a status other than 200
\* ("status") or answers 200.  _thehackernews calls raise_for_status();
\* _hackread and _csocybercrime leave the loop on a status other than 200.
HttpWalk(outcome) ==
    /\ pipe.pc = "h_walk"
    /\ LET all_links == pipe.all_links \cup PageLinks(pipe.current_url)
           next_url == IF UsesFinder(crawler) THEN FindNext(pipe.current_url)
                       ELSE pipe.page_no + 1
           stop == \/ CapReached(all_links, limits.max_articles)
                   \/ UsesFinder(crawler) /\ LoopGuard(next_url, pipe.current_url)
                   \/ pipe.page_no >= limits.max_pages
           raises == outcome = "raise" \/ (outcome = "status" /\ crawler = "_thehackernews")
           visiting(links) == [pipe EXCEPT !.pc = "h_visit", !.all_links = links,
                                           !.visit_list = VisitListOf(links), !.idx = 1]
       IN /\ sessions' = Navigate(sessions, pipe.sess, "discovery", outcome = "ok")
          /\ hist' = [hist EXCEPT !.faults = @ + Cost(outcome),
                                  !.http_failed = IF outcome = "ok" THEN @ ELSE outcome,
                                  !.http_requests = 1,
                                  !.undelayed = @ \/ hist.http_requests > 0]
          /\ pipe' = IF raises THEN [pipe EXCEPT !.pc = "raised"]
                     ELSE IF outcome = "status" THEN visiting(pipe.all_links)
                     ELSE IF stop THEN visiting(all_links)
                     ELSE [pipe EXCEPT !.all_links = all_links, !.page_no = @ + 1,
                                       !.current_url = next_url]
    /\ UNCHANGED <<crawler, storeVars, walkVars, appenders, doc>>

\* one pass of the visiting loop of the HTTP strategy; every failure goes to
\* the next link
HttpVisit(outcome) ==
    /\ pipe.pc = "h_visit"
    /\ pipe.idx <= Len(pipe.visit_list)
    /\ outcome = "store" => faulty
    /\ LET link == pipe.visit_list[pipe.idx]
       IN /\ sessions' = Navigate(sessions, pipe.sess, "visiting",
                                      outcome \in {"ok", "parse", "store"})
          /\ hist' = [hist EXCEPT !.faults = @ + Cost(outcome), !.attempts = Append(@, link),
                                  !.http_requests = 1,
                                  !.undelayed = @ \/ hist.http_requests > 0]
          /\ \E c \in {Collect([pipe EXCEPT !.idx = NextLink(pipe.idx, outcome)], store, link,
                                outcome)} :
                pipe' = c.pipe /\ store' = c.store
    /\ UNCHANGED <<crawler, faulty, clock, written, first_aid, epoch, last, walkVars,
                   appenders, doc>>

\* after the last link the HTTP strategy goes on to the enrichment; the
\* requests session is not closed
HttpVisitDone ==
    /\ pipe.pc = "h_visit"
    /\ pipe.idx > Len(pipe.visit_list)
    /\ hist' = [hist EXCEPT !.visited = TRUE]
    /\ pipe' = [pipe EXCEPT !.pc = "enrich", !.enrich_i = 1]
    /\ UNCHANGED <<crawler, storeVars, walkVars, appenders, doc, sessions>>

processed_index_key(w) == TopKey(Namespace(w), "processed_index")

KeyUrl == <<117, 114, 108>>

KeyEntities == <<101, 110, 116, 105, 116, 105, 101, 115>>

\* what nlp.process_record(rec) returns when it returns a record
ProcessedOf(link) ==
    DictNode(<<[k |-> KeyUrl, val |-> StrNode(link)],
               [k |-> KeyEntities, val |-> ListNode(<<>>)]>>)

\* aid = self._sha1(card.m_url or card.m_title)
enrich_aid(card) == Sha1(IF card.m_url # EmptyStr /\ card.m_url # NoneVal
                         THEN card.m_url ELSE card.m_title)

\* the store after the enrichment of one card: if processed: the flattened
\* record is written and the id appended to the processed index
nlp_store_IndexesAlways(w, st, card, outcome, now) ==
    _append_index(w, st, processed_index_key(w), enrich_aid(card), now, FALSE, FALSE).store

nlp_store(w, st, card, outcome, now) ==
    IF outcome \in {"none", "raise"} THEN st
    ELSE LET aid == enrich_aid(card)
             wr == ApplyWrites(w, st, FlattenWrites(w, aid, ProcessedOf(card.m_url)),
                               now, IF outcome = "write" THEN 1 ELSE 0, 1)
         IN IF wr.raised THEN wr.store
            ELSE _append_index(w, wr.store, processed_index_key(w), aid, now, FALSE,
                               FALSE).store

\* the backend raises in the first write of the processed record ("write"):
\* a _redis_set without a try lets the exception out of the loop, into the
\* try around the whole of the enrichment
nlp_aborts(w, outcome) == outcome = "write" /\ ~UsesCrawlerBase(w)

\* one pass of "for card in self._card_data": process_record(rec) returns a
\* record ("ok"), returns None ("none") or raises ("raise"), or returns a
\* record whose first write raises in the backend ("write")
Enrich(outcome) ==
    /\ pipe.pc = "enrich"
    /\ pipe.enrich_i <= Len(pipe.card_data)
    /\ outcome = "write" => faulty
    /\ store' = nlp_store(crawler, store, CardFor(pipe.card_data[pipe.enrich_i]), outcome,
                          Now(clock))
    /\ hist' = [hist EXCEPT !.faults = @ + Cost(outcome),
                            !.enriched = Append(@, [card |-> pipe.enrich_i, run |-> hist.runs,
                                                    outcome |-> outcome])]
    /\ pipe' = [pipe EXCEPT !.enrich_i = IF nlp_aborts(crawler, outcome)
                                         THEN Len(pipe.card_data) + 1 ELSE @ + 1]
    /\ UNCHANGED <<crawler, faulty, clock, written, first_aid, epoch, last, walkVars,
                   appenders, doc, sessions>>

\* self._is_crawled = True; return {"seed_url": ..., "articles_collected": collected, ...}
RunReturn ==
    /\ pipe.pc = "enrich"
    /\ pipe.enrich_i > Len(pipe.card_data)
    /\ pipe' = [pipe EXCEPT !.pc = "returned", !.is_crawled = TRUE]
    /\ UNCHANGED <<crawler, storeVars, walkVars, appenders, doc, sessions, hist>>

NextRun ==
    \/ RunCall
    \/ \E o \in Outcomes({"ok", "launch", "nav"}) : BrowserOpen(o)
    \/ \E o \in Outcomes({"ok", "launch", "nav", "close"}) : BrowserRetry(o)
    \/ \E o \in Outcomes({"ok", "nav"}) : BrowserWalk(o)
    \/ \E o \in Outcomes({"ok", "launch"}) : VisitOpen(o)
    \/ \E o \in Outcomes({"ok", "launch"}) : VisitRetry(o)
    \/ \E o \in Outcomes({"ok", "nav", "parse", "store"}) : VisitLink(o)
    \/ BrowserClose
    \/ Fallback
    \/ \E o \in Outcomes({"ok", "status", "raise"}) : HttpWalk(o)
    \/ \E o \in Outcomes({"ok", "status", "raise", "parse", "store"}) : HttpVisit(o)
    \/ HttpVisitDone
    \/ \E o \in Outcomes({"ok", "none", "raise", "write"}) : Enrich(o)
    \/ RunReturn

SpecRun == InitRun /\ [][NextRun]_vars

-----------------------------------------------------------------------------
(* The list fields of a raw card, stored again and again under one id and  *)
(* read back by ui_server.load_raw_card.                                    *)

\* ui_server.rget(key, default) of a raw key
rget_raw(st, key, default, now) ==
    LET val == BackendGet(st, key, default, now).value
    IN IF val = NoneVal THEN default ELSE val

\* ui_server.rget_int(key, default) of a raw key
rget_int_raw(st, key, default, now) ==
    LET val == rget_raw(st, key, EmptyStr, now)
    IN IF IsDigits(val) THEN ParseInt(val) ELSE default

\* n = gl_i("<name>_count", 0); for i in range(n): lst.append(gl("<name>:<i>", ""))
load_list(st, ns, aid, name, now) ==
    LET n == rget_int_raw(st, RawKey(ns, aid, name \o "_count", NoIdx), 0, now)
    IN [i \in 1..n |-> rget_raw(st, RawKey(ns, aid, name, i - 1), EmptyStr, now)]

\* the three lists of load_raw_card
load_raw_lists(st, ns, aid, now) ==
    [links |-> load_list(st, ns, aid, "links", now),
     weblink |-> load_list(st, ns, aid, "weblink", now),
     dumplink |-> load_list(st, ns, aid, "dumplink", now)]

\* lists of the URLs "B" and "C" of up to MaxListLen elements
LinkLists == UNION {[1..n -> {UrlB, UrlC}] : n \in 0..MaxListLen}

\* the list fields of the cards stored: m_links any list or None, the other
\* two one of a few
ListFields ==
    [links : LinkLists \cup {NoneList},
     weblink : {<<>>, <<UrlB>>, <<UrlB, UrlC>>},
     dumplink : {NoneList, <<UrlC>>}]

\* the card with the URL "A" and these lists
CardWith(lists) ==
    [CardOf(UrlA, <<116>>, ExtraOf(<<116>>)) EXCEPT !.m_links = lists.links,
                                                    !.m_weblink = lists.weblink,
                                                    !.m_dumplink = lists.dumplink]

NoLists == [links |-> <<>>, weblink |-> <<>>, dumplink |-> <<>>]

InitLists ==
    /\ crawler \in Crawlers
    /\ faulty = FALSE
    /\ store = <<>>
    /\ clock = 0
    /\ written = <<>>
    /\ first_aid = <<>>
    /\ epoch = 0
    /\ last = Idle
    /\ site = <<>>
    /\ limits = DefaultLimits
    /\ walk = WalkIdle
    /\ fetched = <<>>
    /\ prev_visit = NoneList
    /\ appenders = AppendersIdle
    /\ doc = [pc |-> "new", stores |-> 0, lists |-> NoLists, before |-> NoLists,
              loaded |-> NoLists]
    /\ pipe = PipeIdle
    /\ sessions = <<>>
    /\ hist = HistEmpty

\* _store_raw_card(card) of a card with the URL "A", a first and a second time
StoreLists(lists) ==
    /\ doc.pc \in {"new", "stored"}
    /\ store' = _store_raw_card(crawler, store, CardWith(lists), clock, 0).store
    /\ doc' = [pc |-> IF doc.pc = "new" THEN "stored" ELSE "restored",
               stores |-> doc.stores + 1, lists |-> lists,
               before |-> doc.lists, loaded |-> NoLists]
    /\ UNCHANGED <<crawler, faulty, clock, written, first_aid, epoch, last, walkVars,
                   appenders, pipe, sessions, hist>>

\* load_raw_card(cfg, aid)
LoadRawCard ==
    /\ doc.pc \in {"stored", "restored"}
    /\ doc' = [doc EXCEPT !.pc = "loaded",
                          !.loaded = load_raw_lists(store, Namespace(crawler), Sha1(UrlA),
                                                    Now(clock))]
    /\ UNCHANGED <<crawler, storeVars, walkVars, appenders, pipe, sessions, hist>>

NextLists ==
    \/ \E lists \in ListFields : StoreLists(lists)
    \/ LoadRawCard

SpecLists == InitLists /\ [][NextLists]_vars

-----------------------------------------------------------------------------
(* A processed record stored a second time under the same base.            *)

\* the records stored the second time: {"a": ...} with a scalar, an empty
\* list or a list of one element
Redocs ==
    {DictNode(<<[k |-> KeyA, val |-> x]>>) :
        x \in Scalars \cup {ListNode(<<>>), ListNode(<<StrNode(<<120>>)>>)}}

\* _store_processed(aid, processed) again, with another record
StoreProcessedAgain(obj) ==
    /\ doc.pc = "stored"
    /\ store' = ApplyWrites(crawler, store, FlattenWrites(crawler, DocAid, obj),
                            Now(clock), 0, 1).store
    /\ doc' = [pc |-> "restored", obj |-> obj, loaded |-> NoneNode]
    /\ UNCHANGED <<crawler, faulty, clock, written, first_aid, epoch, last, walkVars,
                   appenders, pipe, sessions, hist>>

NextRestore ==
    \/ StoreProcessed
    \/ \E obj \in Redocs : StoreProcessedAgain(obj)

SpecRestore == InitFlatten /\ [][NextRestore]_vars

-----------------------------------------------------------------------------
(* A card stored raw and then enriched.                                     *)

\* the Card the last _store_raw_card stored
LastCard == CardOf(last.arg, last.default, ExtraOf(last.default))

\* the pass of the enrichment loop for the Card stored last, process_record
\* returning a record: aid = self._sha1(card.m_url or card.m_title), the
\* processed keys are written and aid is appended to the processed index.
\* last.before keeps the id _store_raw_card returned.
EnrichStored ==
    /\ last.op = "_store_raw_card"
    /\ ~last.raised
    /\ store' = nlp_store(crawler, store, LastCard, "ok", Now(clock))
    /\ last' = [last EXCEPT !.op = "_nlp_enrich_and_store",
                            !.key = processed_index_key(crawler),
                            !.before = last.ret,
                            !.ret = enrich_aid(LastCard)]
    /\ UNCHANGED <<crawler, faulty, clock, written, first_aid, epoch, walkVars, pipeVars>>

NextEnrichStore ==
    \/ Tick
    \/ \E c \in Cards : StoreRawCard(c, 0)
    \/ EnrichStored

SpecEnrichStore == Init /\ [][NextEnrichStore]_vars

-----------------------------------------------------------------------------
(* Claims.                                                                 *)

IsPrefix(s, t) == Len(s) <= Len(t) /\ SubSeq(t, 1, Len(s)) = s

NoDuplicates(seq) == \A i, j \in 1..Len(seq) : i # j => seq[i] # seq[j]

\* the members of the raw index of the running crawler, as a reader splits them
IndexMembers == IndexParts(IndexString(store, raw_index_key(crawler)))

\* C1: for a card whose URL is non-empty, the id storeRaw computes depends on
\* the URL alone: every storeRaw of a card with that URL returns the id the
\* first one returned, whatever the title, the time and the process are.
C1_IdempotentIdentity ==
    (last.op = "_store_raw_card" /\ last.arg # EmptyStr)
        => last.ret = first_aid[last.arg][1]

\* a card with the URL "A" stored again with another title, at a later time,
\* after a restart of the process
C1_Witness ==
    /\ last.op = "_store_raw_card"
    /\ last.arg = UrlA
    /\ last.default # first_aid[UrlA][2]
    /\ epoch > first_aid[UrlA][3]
    /\ last.ret = Sha1(UrlA)

\* C2: the index string holds each id at most once, and appendIndex of an id
\* that is already a member leaves the index value unchanged.
C2_IndexDeduplicated ==
    /\ NoDuplicates(IndexMembers)
    /\ (last.op = "_append_index" /\ last.arg \in Range(IndexParts(last.before)))
          => IndexString(store, last.key) = last.before

\* appendIndex of the first of two members
C2_Witness ==
    /\ last.op = "_append_index"
    /\ Len(IndexParts(last.before)) = 2
    /\ last.arg = IndexParts(last.before)[1]
    /\ Len(IndexMembers) = 2

\* C3: the index is append-only, also when a backend get fails and is answered
\* with the default: the members before an appendIndex call are the first
\* members after it, in the same order, and a new id comes after them.
C3_AppendOnly ==
    last.op = "_append_index"
        => /\ IsPrefix(IndexParts(last.before), IndexMembers)
           /\ (~last.raised /\ ~last.failSet) => last.arg \in Range(IndexMembers)

\* C4: after set(key, v, expiry=1), a get issued once more than 1 second has
\* elapsed returns the default and deletes the entry.
C4_LazyExpiry ==
    (/\ last.op = "get"
     /\ last.key \in DOMAIN written
     /\ written[last.key][2] = 1
     /\ clock - written[last.key][3] > TicksPerSecond)
        => (last.ret = last.default /\ last.key \notin DOMAIN store)

\* C5: a value set without an expiry is never expired: every later get of the
\* key returns it, however much time has passed and whether or not the key
\* carried a TTL before that set.
C5_NoExpiryKept ==
    (/\ last.op \in {"get", "_redis_get"}
     /\ last.key \in DOMAIN written
     /\ ~Truthy(written[last.key][2]))
        => /\ last.key \in DOMAIN store
           /\ last.op = "get" => last.ret = written[last.key][1]
           /\ (last.op = "_redis_get" /\ written[last.key][1] # NoneVal)
                 => last.ret = written[last.key][1]

\* a get, more than two seconds after a set without expiry that replaced an
\* entry with a TTL, returns the value and not the default
C5_Witness ==
    /\ last.op = "get"
    /\ last.key \in DOMAIN written
    /\ ~Truthy(written[last.key][2])
    /\ written[last.key][4]
    /\ clock - written[last.key][3] > 2 * TicksPerSecond
    /\ last.ret = <<118>>
    /\ last.default # <<118>>

\* C6: a backend error never reaches the caller of a cache wrapper: a failed
\* get returns the default, a failed set returns normally.
C6_ErrorsSwallowed ==
    (last.op \in {"_redis_get", "_redis_set"} /\ (last.failGet \/ last.failSet))
        => /\ ~last.raised
           /\ last.op = "_redis_get" => last.ret = last.default

\* the sequence is in strictly ascending order
Ascending(seq) == \A i \in 1..(Len(seq) - 1) : LexLess(seq[i], seq[i + 1])

\* the number of places at which u stands in seq
Occurrences(seq, u) == Cardinality({i \in 1..Len(seq) : seq[i] = u})

\* the cap cut the result of the walk short
Truncated == Truthy(limits.max_articles) /\ Cardinality(walk.all_links) > limits.max_articles

\* C7: the sequence returned by link discovery contains every discovered URL
\* exactly once, is ascending, and a second run over the same pages returns
\* the same sequence
C7_EachDiscoveredOnce ==
    walk.pc = "done" =>
        /\ \A u \in walk.all_links : Occurrences(walk.visit_list, u) = 1
        /\ Ascending(walk.visit_list)
        /\ prev_visit # NoneList => walk.visit_list = prev_visit

\* C7: the sequence returned by link discovery holds discovered URLs only,
\* none of them twice, in ascending order, whatever the order in which the
\* set handed them out; it holds every discovered URL unless the cap cut it
\* short; a second run over the same pages returns the same sequence
C7_DedupSortedDeterministic ==
    walk.pc = "done" =>
        /\ Range(walk.visit_list) \subseteq walk.all_links
        /\ \A u \in walk.all_links : Occurrences(walk.visit_list, u) <= 1
        /\ ~Truncated => Range(walk.visit_list) = walk.all_links
        /\ Ascending(walk.visit_list)
        /\ prev_visit # NoneList => walk.visit_list = prev_visit

\* two fetched index pages share a link, three links are returned, and the
\* walk is the second one over the same pages
C7_Witness ==
    /\ walk.pc = "done"
    /\ prev_visit # NoneList
    /\ Len(fetched) >= 2
    /\ PageLinks(1) \cap PageLinks(2) # {}
    /\ PageLinks(1) # PageLinks(2)
    /\ Len(walk.visit_list) = 3
    /\ walk.visit_list = prev_visit

Min(a, b) == IF a < b THEN a ELSE b

\* C8: with an article cap k, the visited sequence has min(k, number of
\* distinct URLs accumulated) members
C8_CapEnforced ==
    (walk.pc = "done" /\ limits.max_articles # NoLimit) =>
        Len(walk.visit_list) = Min(limits.max_articles, Cardinality(walk.all_links))

\* a walk that accumulated more URLs than the cap
C8_Witness ==
    /\ walk.pc = "done"
    /\ limits.max_articles = 2
    /\ Cardinality(walk.all_links) = 3
    /\ Len(walk.visit_list) = 2

\* the URLs A, B, C lie on two index pages, and the limits are two pages and
\* two articles
Scenario9 ==
    /\ PageLinks(1) \cup PageLinks(2) = {UrlA, UrlB, UrlC}
    /\ UsesFinder(crawler) => FindNext(1) = 2
    /\ limits = [max_pages |-> 2, max_articles |-> 2]

\* C9: in the scenario the visited sequence is [A, B], however the three
\* URLs lie on the two pages
C9_FirstTwoOfUnion ==
    (walk.pc = "done" /\ Scenario9) => walk.visit_list = <<UrlA, UrlB>>

\* the two least members of S in ascending order
FirstTwo(S) ==
    CHOOSE seq \in [1..2 -> S] :
        /\ LexLess(seq[1], seq[2])
        /\ \A u \in S \ {seq[1], seq[2]} : LexLess(seq[2], u)

\* C9: in the scenario the visited sequence is the first two of the sorted
\* links of page 1 when page 1 has two or more of the three URLs, and [A, B]
\* otherwise
C9_FirstTwoOfWalked ==
    (walk.pc = "done" /\ Scenario9) =>
        walk.visit_list = IF Cardinality(PageLinks(1)) >= 2
                          THEN FirstTwo(PageLinks(1)) ELSE <<UrlA, UrlB>>

\* page 1 has only C, the walk goes on to page 2 and returns [A, B]
C9_Witness ==
    /\ walk.pc = "done"
    /\ Scenario9
    /\ PageLinks(1) = {UrlC}
    /\ Len(fetched) = 2
    /\ walk.visit_list = <<UrlA, UrlB>>

\* C10: an index page on which the finder returns the page's own URL is the
\* last page fetched, whatever the page limit
C10_LoopGuard ==
    UsesFinder(crawler) =>
        \A i \in 1..Len(fetched) : FindNext(fetched[i]) = fetched[i] => i = Len(fetched)

\* the finder of the seed page returns the seed page, more pages are allowed
\* and no cap ended the walk: the walk is over after that one page
C10_Witness ==
    /\ UsesFinder(crawler)
    /\ walk.pc = "done"
    /\ FindNext(1) = 1
    /\ limits.max_pages >= 2
    /\ ~CapReached(walk.all_links, limits.max_articles)
    /\ walk.all_links # {}
    /\ fetched = <<1>>

\* both callers have returned, with different ids, after reading the same
\* index string that held neither id: each read came before the other's rewrite
RacedAppends(a, b) ==
    /\ appenders[a].pc = "done" /\ appenders[b].pc = "done"
    /\ appenders[a].item_id # appenders[b].item_id
    /\ appenders[a].cur = appenders[b].cur
    /\ appenders[a].item_id \notin Range(IndexParts(appenders[a].cur))
    /\ appenders[b].item_id \notin Range(IndexParts(appenders[b].cur))

\* C17: when two concurrent _append_index calls with different ids both read
\* the index before either rewrote it, then after both have returned exactly
\* one of the two ids is a member of the index: one insertion is lost
C17_LostUpdate ==
    (DOMAIN appenders = Appenders) =>
        \A a, b \in Appenders :
            RacedAppends(a, b) =>
                /\ appenders[a].item_id \in Range(IndexMembers) \/ appenders[b].item_id \in Range(IndexMembers)
                /\ ~(appenders[a].item_id \in Range(IndexMembers) /\ appenders[b].item_id \in Range(IndexMembers))

\* both calls have returned and only the id of caller 2 is in the index
C17_Witness ==
    /\ DOMAIN appenders = Appenders
    /\ RacedAppends(1, 2)
    /\ appenders[1].item_id \notin Range(IndexMembers)
    /\ appenders[2].item_id \in Range(IndexMembers)

RECURSIVE NoneAsEmpty(_)
\* the structure with every None replaced by ""
NoneAsEmpty(node) ==
    IF node.t = "none" THEN StrNode(EmptyStr)
    ELSE IF node.t \in {"str", "int"} THEN node
    ELSE [node EXCEPT !.items = [i \in 1..Len(node.items) |->
                                    [k |-> node.items[i].k, val |-> NoneAsEmpty(node.items[i].val)]]]

RECURSIVE ScalarsAsText(_)
\* the structure with every scalar replaced by the string str() gives for it, None by ""
ScalarsAsText(node) ==
    IF node.t \in {"none", "str", "int"} THEN StrNode(StrOf(node))
    ELSE [node EXCEPT !.items = [i \in 1..Len(node.items) |->
                                    [k |-> node.items[i].k, val |-> ScalarsAsText(node.items[i].val)]]]

\* a key of the mapping holds a ":"
ColonKey(node) == \E i \in 1..Len(node.items) : COLON \in Range(node.items[i].k)

RunEnded == pipe.pc \in {"returned", "raised"}

\* the browser strategy of the current run raised
BrowserRaised == hist.left_by # "none"

\* C11: when the browser strategy raised during discovery, the HTTP strategy
\* is started once and never a second time, it starts from discovery (page 1,
\* no link accumulated, no link attempted before its own discovery is over),
\* and when no fetch of its discovery failed the run never ends by an error:
\* it ends by returning the summary, with is_crawled set.
C11_FallbackOnce ==
    (BrowserRaised /\ hist.left_in = "discovery") =>
        /\ hist.http_starts = (IF pipe.pc = "b_raised" THEN 0 ELSE 1)
        /\ pipe.pc \in {"b_raised", "h_walk", "h_visit", "enrich", "returned", "raised"}
        /\ pipe.pc = "h_walk" => hist.attempts = <<>> /\ pipe.visit_list = <<>>
        /\ hist.http_failed = "none" =>
              /\ pipe.pc # "raised"
              /\ RunEnded => pipe.pc = "returned" /\ pipe.is_crawled

C11_Witness ==
    /\ BrowserRaised
    /\ hist.left_in = "discovery"
    /\ hist.http_failed = "none"
    /\ pipe.pc = "returned"
    /\ pipe.collected > 0
    /\ hist.http_starts = 1

\* a fetch of an index page failed in the HTTP strategy of the current run
HttpDiscoveryFailed == hist.http_failed # "none"

\* C12: when the browser strategy raised and a fetch of the HTTP strategy's
\* discovery failed too, the run goes no further than the error: it visits
\* nothing, enriches nothing, returns no summary and (in the first run of the
\* instance) leaves is_crawled false; the HTTP strategy was started once.
C12_ExhaustionPropagates ==
    (BrowserRaised /\ HttpDiscoveryFailed) =>
        /\ pipe.pc = "raised"
        /\ hist.http_starts = 1
        /\ hist.runs = 1 => ~pipe.is_crawled

\* the visiting loop of the current run is running or has ended
Visiting == pipe.pc \in {"b_visit", "h_visit"}

\* C13: the links attempted so far are the first links of the visit list, each
\* once and in the order of the list, which is ascending; whatever failed on
\* the way, once the loop has ended every link of the list has been attempted
\* exactly once.
C13_EveryLinkOnce ==
    /\ Visiting => /\ Ascending(pipe.visit_list)
                   /\ pipe.idx \in 1..(Len(pipe.visit_list) + 1)
                   /\ hist.attempts = SubSeq(pipe.visit_list, 1, pipe.idx - 1)
    /\ hist.visited => /\ hist.attempts = pipe.visit_list
                       /\ NoDuplicates(hist.attempts)

\* the first of two links failed, the second was attempted and gave a card
C13_Witness ==
    /\ hist.visited
    /\ hist.runs = 1
    /\ Len(pipe.visit_list) = 2
    /\ hist.attempts = pipe.visit_list
    /\ pipe.card_data = <<pipe.visit_list[2]>>

\* the number of times the enrichment was invoked for the Card at place i of
\* the instance's card list
Invocations(i) == Cardinality({n \in 1..Len(hist.enriched) : hist.enriched[n].card = i})

\* C15: over the runs of one instance, the enrichment is invoked at most once
\* for each collected Card, and exactly once for each when a run has returned
C15_EnrichedOnce ==
    \A i \in 1..Len(pipe.card_data) :
        /\ Invocations(i) <= 1
        /\ pipe.pc = "returned" => Invocations(i) = 1

\* the members of the processed index of the running crawler
ProcessedMembers == Range(IndexParts(IndexString(store, processed_index_key(crawler))))

\* the step is one pass of the enrichment loop in which enrich raised or
\* returned none
EnrichFailedStep ==
    /\ pipe.pc = "enrich"
    /\ Len(hist'.enriched) = Len(hist.enriched) + 1
    /\ hist'.enriched[Len(hist'.enriched)].outcome \in {"none", "raise"}

\* C16: a pass of the enrichment loop in which enrich raises or returns none
\* leaves the whole store as it was: nothing is written under the processed
\* keys of the record, the processed index is not appended to, the raw record
\* and the raw index are unchanged.
C16_FailedEnrichWritesNothing == [][EnrichFailedStep => store' = store]_vars

\* after a failed enrichment in the first run: the raw record is stored and
\* indexed, its id is not in the processed index
C16_Witness ==
    /\ hist.runs = 1
    /\ hist.enriched # <<>>
    /\ hist.enriched[Len(hist.enriched)].outcome \in {"none", "raise"}
    /\ LET aid == enrich_aid(CardFor(pipe.card_data[hist.enriched[Len(hist.enriched)].card]))
       IN /\ aid \in Range(IndexMembers)
          /\ aid \in StoredIds(store)
          /\ aid \notin ProcessedMembers
          /\ \A k \in DOMAIN store : k.kind = "processed" => ~IsPrefix(aid, k.id)

\* C18: when a failed navigation makes the browser strategy give up, that
\* navigation is the further attempt made without the proxy, in a session of
\* its own, after a first attempt at the same page (a launch or a navigation)
\* failed.
C18_RetryEveryNavigation ==
    (pipe.pc = "b_raised" /\ hist.left_by = "navigation") =>
        LET last_nav == hist.navs[Len(hist.navs)]
        IN /\ ~last_nav.ok
           /\ last_nav.retry
           /\ ~last_nav.proxy
           /\ \A n \in 1..(Len(hist.navs) - 1) : hist.navs[n].sess # last_nav.sess

\* session s has been released: its close() was called, or (a browser
\* session) the Playwright driver it lives in was shut down
Released(s) == sessions[s].closed \/ sessions[s].stopped

\* C19: when run() has ended, by its return or by an error, every session
\* that the strategies of the run opened has been released
C19_SessionsReleased ==
    RunEnded => \A s \in 1..Len(sessions) : Released(s)

\* the automation sessions of the current run
BrowserSessions == {s \in 1..Len(sessions) : sessions[s].kind = "browser"}

\* C20: no automation session served navigations of both phases, and none
\* served a navigation after a navigation or a parse on it had raised
C20_SessionPerPhase ==
    \A s \in BrowserSessions :
        /\ Cardinality(sessions[s].phases) <= 1
        /\ ~sessions[s].nav_after_error

\* the key of an optional extra of the record the last storeRaw wrote
ExtraKey(name) == RawKey(Namespace(crawler), last.ret, name, NoIdx)

\* C21: after storeRaw of a card, the keys <prefix>:<id>:date_raw and
\* <prefix>:<id>:content_html both exist, and hold the empty string when the
\* card carries no such extra
C21_ExtrasAlwaysWritten ==
    (last.op = "_store_raw_card" /\ ~last.raised) =>
        \A name \in {"date_raw", "content_html"} :
            /\ ExtraKey(name) \in DOMAIN store
            /\ ExtraOf(last.default) = <<>> => IndexString(store, ExtraKey(name)) = EmptyStr

\* the phase of the run the pipeline is in
Phase(pc) ==
    CASE pc = "none" -> "Idle"
      [] pc \in {"b_open", "b_retry", "b_walk", "h_walk"} -> "Discovering"
      [] pc \in {"v_open", "v_retry", "b_visit", "h_visit"} -> "Visiting"
      [] pc = "enrich" -> "Enriching"
      [] pc = "returned" -> "Done"
      [] pc = "b_raised" -> "FailedBrowser"
      [] OTHER -> "Raised"

\* the phases a step may lead to; a new run starts from Done or Raised
NextPhases(ph) ==
    CASE ph = "Idle" -> {"Discovering"}
      [] ph = "Discovering" -> {"Discovering", "Visiting", "FailedBrowser", "Raised"}
      [] ph = "Visiting" -> {"Visiting", "Enriching", "FailedBrowser"}
      [] ph = "FailedBrowser" -> {"Discovering"}
      [] ph = "Enriching" -> {"Enriching", "Done"}
      [] OTHER -> {"Discovering"}

\* the enrichment calls of the current run
EnrichedNow == {n \in 1..Len(hist.enriched) : hist.enriched[n].run = hist.runs}

\* the ids of the raw records of the Cards collected so far
CollectedIds == {Sha1(pipe.card_data[i]) : i \in 1..Len(pipe.card_data)}

NextIndexPage ==
    IF UsesFinder(crawler)
    THEN (IF FindNext(walk.current_url) = walk.current_url
          THEN 0 ELSE FindNext(walk.current_url))
    ELSE walk.page_no + 1

\* C23: on an index page that yields no link, with fewer than max_pages pages
\* walked and a next page that is not the current one, the walk goes on: the
\* next page is fetched and becomes the current page
C23_EmptyPageGoesOn ==
    [][(/\ walk.pc = "walking"
        /\ PageLinks(walk.current_url) = {}
        /\ walk.page_no < limits.max_pages
        /\ NextIndexPage # 0)
       => (/\ walk'.pc = "walking"
           /\ walk'.current_url = NextIndexPage
           /\ walk'.page_no = walk.page_no + 1
           /\ fetched' = Append(fetched, NextIndexPage))]_vars

\* the first page gave no link, the second page was fetched and gave one
C23_Witness ==
    /\ walk.pc = "done"
    /\ limits.max_pages >= 2
    /\ Len(fetched) >= 2
    /\ PageLinks(fetched[1]) = {}
    /\ fetched[2] # fetched[1]
    /\ walk.all_links = PageLinks(fetched[2])
    /\ walk.all_links # {}

\* C25: whatever the extractor and the finder give, discovery with
\* max_pages = n ends having fetched at most n index pages
C25_AtMostMaxPagesFetched ==
    /\ Len(fetched) <= limits.max_pages
    /\ walk.pc = "walking" => walk.page_no <= limits.max_pages

\* C24: when a run has returned, every Card of the batch has been passed to
\* enrich in that run, whatever error the handling of an earlier record of
\* the batch raised
C24_BatchNotAborted ==
    pipe.pc = "returned" =>
        \A i \in 1..Len(pipe.card_data) :
            \E n \in EnrichedNow : hist.enriched[n].card = i

\* C26: the lists load_raw_card reads (count, then the elements below it) are
\* the lists last stored under the id, element for element, whatever lists
\* were stored under it before (None is stored as the empty list)
C26_ListsRoundTrip ==
    doc.pc = "loaded" =>
        /\ doc.loaded.links = OrEmptyList(doc.lists.links)
        /\ doc.loaded.weblink = OrEmptyList(doc.lists.weblink)
        /\ doc.loaded.dumplink = OrEmptyList(doc.lists.dumplink)

\* a list of two links was stored, then a list of one: the key of the second
\* element is still in the store, and the reader returns the one link
C26_Witness ==
    /\ doc.pc = "loaded"
    /\ doc.stores = 2
    /\ doc.before.links = <<UrlB, UrlC>>
    /\ doc.lists.links = <<UrlC>>
    /\ RawKey(Namespace(crawler), Sha1(UrlA), "links", 1) \in DOMAIN store
    /\ doc.loaded.links = <<UrlC>>

\* the processed keys in the store under the base of the document
KeysUnderBase == {k \in DOMAIN store : k.kind = "processed" /\ IsPrefix(DocAid, k.id)}

\* the keys the flattening of a record writes
FlattenKeys(obj) ==
    {FlattenWrites(crawler, DocAid, obj)[i][1] :
        i \in 1..Len(FlattenWrites(crawler, DocAid, obj))}

\* C30: after a record has been stored again under the same base, the keys
\* under the base are exactly the keys of the flattening of the record
\* stored last
C30_NoStaleKeys ==
    doc.pc = "restored" => KeysUnderBase = FlattenKeys(doc.obj)

\* C27: in the HTTP strategy no request to the origin server (index page or
\* article) follows another without a delay step between the two
\* (hist.http_requests: the requests made since the last delay step;
\* hist.undelayed: a request was made while that number was not 0)
C27_DelayBetweenRequests == ~hist.undelayed

\* C28: the id under which the enrichment output of a card is written and
\* indexed is the id storeRaw returned for the card, and every member of the
\* processed index is a member of the raw index
C28_ProcessedIdIsRawId ==
    /\ last.op = "_nlp_enrich_and_store" => last.ret = last.before
    /\ ProcessedMembers \subseteq Range(IndexMembers)

\* the Cards the current run appended to card_data
CardsOfRun == Len(pipe.card_data) - hist.cards_before

\* C29: when a run completes, articles_collected equals the number of Cards
\* the run appended to card_data, which equals the number of Entities it
\* appended and the number of raw records it stored and indexed (counted in
\* the first run, where the store starts empty); card_data and entity_data
\* have the same length in every state
C29_CollectedEqualsCards ==
    /\ Len(pipe.card_data) = pipe.entity_data
    /\ pipe.pc = "returned" =>
          /\ pipe.collected = CardsOfRun
          /\ hist.runs = 1 =>
                /\ pipe.collected = Cardinality(StoredIds(store))
                /\ pipe.collected = Len(IndexMembers)

=============================================================================
